---- MODULE Spec2Model ----
(***************************************************************************)
(* A model of src/builddeepspeed.py (class DeepSpeedPatcher).              *)
(*                                                                         *)
(* The program is a single-threaded Tk application.  Its handlers          *)
(* (build_only, start_installation, install_wheel) and the startup         *)
(* check_prerequisites call self.log(), and log() ends with                *)
(* self.root.update(), which dispatches every pending GUI event: a click   *)
(* on one of the action buttons (never disabled) runs that button's        *)
(* handler to completion INSIDE the log() call of the handler that is      *)
(* already running.  The model therefore keeps the Python call stack of    *)
(* handlers (stack); only the top frame runs; a handler is cut into steps  *)
(* at its log() calls, and each step is one action that runs from the      *)
(* return of one log() up to and including the next.  Consecutive log()    *)
(* calls with no code between them are one pump point.  Message boxes are  *)
(* modal and dispatch no click on the main window.                         *)
(*                                                                         *)
(* The build subprocess started by run_build_process is a separate         *)
(* process: it writes to a pipe and exits on its own (ChildWrite,          *)
(* ChildExit), whatever the stack is doing.                                *)
(***************************************************************************)
EXTENDS Naturals, Sequences, FiniteSets

VARIABLES
    stack,      \* call stack of handler frames; the last one is running
    machine,    \* what is installed on the machine (see Machines)
    chk,        \* locals of check_prerequisites (it is called once, by __init__)
    prereq,     \* "pending" until check_prerequisites returned, then "met"/"unmet"
    wsExists,   \* os.path.exists(install_dir_var.get())
    wsFiles,    \* entries of the workspace directory (dist/*.whl as wheel names)
    archDir,    \* <sibling>/deepspeed_wheels exists
    archived,   \* wheel files in the archive sub-directory
    site,       \* deepspeed in the interpreter's packages: "none", "old" or a wheel
    progress,   \* progress_var
    status,     \* status_var
    version,    \* version_var.get(): "" or a version of the configuration
    clicks,     \* handlers started so far (bounded by MaxClicks)
    faults,     \* an operating-system call has failed on the program (an I/O error)
    output,     \* the lines run_build.bat and its children print, in order
    vslayout,     \* where on the machine a vcvars64.bat is (see Layouts)
    located,    \* what find_vs_installation returned (NotCalled before)
    configs,    \* the settings of two executions of run_build_process (see Configs)
    scripts     \* the run_build.bat each of them wrote, <<>> before it is written

vars == <<stack, machine, chk, prereq, wsExists, wsFiles, archDir, archived, site,
          progress, status, version, clicks, faults, output, vslayout, located,
          configs, scripts>>

(*************************** bounds of the model ***************************)
\* deepest nesting of handlers inside one another's log() call
MaxDepth == 2
\* handlers the user starts in one behaviour
MaxClicks == 2
\* build options the user has ticked at most, where every setting is tried
MaxTicked == 1
\* lines the child's pipe holds before the child blocks
PipeCap == 1
\* lines a build prints at most, where every output is tried
MaxLines == 3

(***************************** vocabulary **********************************)
Wheels == {"whlA", "whlB"}
\* lines the build prints: one without, one with white space around it
Lines == {"running", " warning "}
\* "zip": deepspeed.zip; "srcdir": the unpacked DeepSpeed-<version> directory;
\* "tree": the source tree moved up into the workspace root; "script":
\* run_build.bat; a wheel name: that file in dist/
\* "extra": a further top-level entry of the unpacked archive
Items == {"zip", "srcdir", "tree", "script", "extra"} \cup Wheels

Installable == {"ninja", "psutil"}
required_packages == <<"torch", "ninja", "psutil">>

Subjects == {"toolchain", "toolkit", "torch", "ninja", "psutil"}

\* the locals of check_prerequisites before its first statement; ran and pk
\* are its log: the subjects it has checked and what it found for a package
NoChk == [i |-> 0, met |-> TRUE, ran |-> {},
          pk |-> [p \in Installable |-> "unchecked"],
          tries |-> [p \in Subjects |-> 0]]

\* The machines the program may be started on: is there a toolchain
\* (find_vs_installation), the toolkit root and its nvcc.exe, does import torch
\* succeed, what does distribution(p) answer, does pip install succeed
\* (exit code 0), and does what pip installs land where distribution() of this
\* interpreter looks (it does not when pip is configured with another
\* target directory).
Machines ==
    [vs : BOOLEAN, cuda : {"absent", "no_nvcc", "ok"},
     torch : {"ok", "ImportError", "error"},
     pk : [Installable -> {"present", "missing", "broken"}],
     pip : BOOLEAN, lands : BOOLEAN]

\* a machine with every prerequisite, and one with none
ReadyMachine ==
    [vs |-> TRUE, cuda |-> "ok", torch |-> "ok",
     pk |-> [p \in Installable |-> "present"], pip |-> TRUE, lands |-> TRUE]
BareMachine ==
    [vs |-> FALSE, cuda |-> "absent", torch |-> "ImportError",
     pk |-> [p \in Installable |-> "missing"], pip |-> FALSE, lands |-> FALSE]

(************************** find_vs_installation ***************************)
\* lines 251-256: default_vs_paths, in the order the dict is iterated
default_vs_paths ==
    <<"VS2019 BuildTools", "VS2019 Community", "VS2022 BuildTools", "VS2022 Community">>

\* lines 265-270 with 280-281: vs_reg_paths, and the name each key yields
vs_reg_paths ==
    <<[key |-> "Setup\\Community", name |-> "VS2022 Community"],
      [key |-> "Setup\\BuildTools", name |-> "VS2022 BuildTools"],
      [key |-> "WOW6432Node\\Setup\\Community", name |-> "VS2019 Community"],
      [key |-> "WOW6432Node\\Setup\\BuildTools", name |-> "VS2019 BuildTools"]>>

\* What a registry key can be: "unreadable" (OpenKey or QueryValueEx raises
\* WindowsError), "empty" (InstallDir is ''), "stale" (no vcvars64.bat under
\* the parent of InstallDir), "valid" (there is one).
KeyStates == {"unreadable", "empty", "stale", "valid"}

\* roots: the default paths under which vcvars64.bat exists
Layouts ==
    [roots : SUBSET (1..Len(default_vs_paths)),
     reg : [1..Len(vs_reg_paths) -> KeyStates]]

\* find_vs_installation has not been called
NotCalled == [name |-> "unset", from |-> "none", index |-> 0]

\* line 286: return None, None, None
NotFound == [name |-> "None", from |-> "none", index |-> 0]

\* lines 272-286: the loop over the registry keys, from key j on
RECURSIVE check_registry(_, _)
check_registry(lay, j) ==
    IF j > Len(vs_reg_paths) THEN NotFound
    ELSE IF lay.reg[j] = "valid"
         THEN [name |-> vs_reg_paths[j].name, from |-> "registry", index |-> j]
         ELSE check_registry(lay, j + 1)

\* lines 259-262: the loop over the default paths, from path i on; then the
\* registry
RECURSIVE check_default_paths(_, _)
check_default_paths(lay, i) ==
    IF i > Len(default_vs_paths) THEN check_registry(lay, 1)
    ELSE IF i \in lay.roots
         THEN [name |-> default_vs_paths[i], from |-> "default", index |-> i]
         ELSE check_default_paths(lay, i + 1)

\* mutant of find_vs_installation_in: the registry is asked first
find_vs_registry_first(lay) ==
    IF check_registry(lay, 1) # NotFound THEN check_registry(lay, 1)
    ELSE check_default_paths([lay EXCEPT !.reg = [j \in DOMAIN lay.reg |-> "stale"]], 1)

\* lines 248-286: (vs_name, vs_path, vcvars_path) on a machine laid out as lay
find_vs_installation_in(lay) == check_default_paths(lay, 1)

\* a layout of a machine with, and of one without, a toolchain
LayoutOf(m) ==
    [roots |-> IF m.vs THEN {3} ELSE {},
     reg |-> [j \in 1..Len(vs_reg_paths) |-> "unreadable"]]

(***************************** run_build.bat *******************************)
\* lines 180-188: the keys of self.build_options
build_options ==
    {"DS_BUILD_AIO", "DS_BUILD_CUTLESS_OPS", "DS_BUILD_EVOFORMER_ATTN",
     "DS_BUILD_FP_QUANTIZER", "DS_BUILD_RAGGED_DEVICE_OPS", "DS_BUILD_SPARSE_ATTN",
     "DS_BUILD_INFERENCE_CORE_OPS"}

\* What run_build_process reads: cuda_var, install_dir_var, the build options
\* that are ticked, and the vcvars_path find_vs_installation returned.
Configs ==
    [cuda : {"11.8", "12.1"},
     dir : {"C:\\work\\deepspeed", "D:\\deepspeed"},
     ticked : {t \in SUBSET build_options : Cardinality(t) <= MaxTicked},
     vcvars : {"2019\\BuildTools\\VC\\Auxiliary\\Build\\vcvars64.bat",
               "2022\\Community\\VC\\Auxiliary\\Build\\vcvars64.bat"}]

\* the settings the window starts with (lines 180-188: nothing ticked)
DefaultConfig ==
    [cuda |-> "12.1", dir |-> "C:\\work\\deepspeed", ticked |-> {},
     vcvars |-> "2022\\Community\\VC\\Auxiliary\\Build\\vcvars64.bat"]

\* One line of the script.  A "set" line has the variable in name and what
\* it is set to in value; any other line has its text in cmd.  arg is the
\* value an f-string puts where {} stands ("" when the line is a constant).
BatLine(cmd, arg) == [cmd |-> cmd, name |-> "", value |-> "", arg |-> arg]
SetLine(name, value, arg) == [cmd |-> "set", name |-> name, value |-> value, arg |-> arg]

\* mutant of cuda_path_line: the toolkit directory without its v
cuda_path_line_plain(cuda) ==
    SetLine("CUDA_PATH", "C:\\Program Files\\NVIDIA GPU Computing Toolkit\\CUDA\\{}", cuda)

\* line 311
cuda_path_line(cuda) ==
    SetLine("CUDA_PATH", "C:\\Program Files\\NVIDIA GPU Computing Toolkit\\CUDA\\v{}", cuda)

\* lines 301-334: what run_build_process writes to run_build.bat
run_build_bat(cfg) ==
    << BatLine("@echo off", ""),
       BatLine("chcp 65001", ""),
       SetLine("PYTHONUTF8", "1", ""),
       SetLine("PYTHONIOENCODING", "utf-8", ""),
       BatLine("call \"{}\"", cfg.vcvars),
       SetLine("DS_BUILD_STRING", "nogit", ""),
       cuda_path_line(cfg.cuda),
       SetLine("CUDA_HOME", "%CUDA_PATH%", ""),
       SetLine("DISTUTILS_USE_SDK", "1", ""),
       SetLine("DS_BUILD_AIO", "0", ""),
       SetLine("DS_BUILD_CUTLASS_OPS", "0", ""),
       SetLine("DS_BUILD_EVOFORMER_ATTN", "0", ""),
       SetLine("DS_BUILD_FP_QUANTIZER", "0", ""),
       SetLine("DS_BUILD_RAGGED_DEVICE_OPS", "0", ""),
       SetLine("DS_BUILD_SPARSE_ATTN", "0", ""),
       SetLine("DS_BUILD_TRANSFORMER_INFERENCE", "0", ""),
       BatLine("echo ============ Environment Variables ============", ""),
       BatLine("echo CUDA_PATH=%CUDA_PATH%", ""),
       BatLine("echo CUDA_HOME=%CUDA_HOME%", ""),
       BatLine("echo PATH=%PATH%", ""),
       BatLine("echo INCLUDE=%INCLUDE%", ""),
       BatLine("echo Platform: %VSCMD_ARG_TGT_ARCH%", ""),
       BatLine("echo ============================================", ""),
       BatLine("cd /d \"{}\"", cfg.dir),
       BatLine("\"{sys.executable}\" setup.py bdist_wheel", ""),
       BatLine("if errorlevel 1 exit /b 1", "") >>

Frame(entry, pc) ==
    [entry |-> entry, pc |-> pc, trace |-> <<>>, proc |-> "none",
     sent |-> 0, pipe |-> <<>>, logged |-> <<>>, wheel |-> "none"]

Top == stack[Len(stack)]
SetTop(f) == [stack EXCEPT ![Len(stack)] = f]
Pop == SubSeq(stack, 1, Len(stack) - 1)
Running(entry, pc) ==
    /\ Len(stack) > 0
    /\ Top.entry = entry
    /\ Top.pc = pc

Env == <<machine, wsExists, wsFiles, archDir, archived, site>>
Disk == <<wsExists, wsFiles, archDir, archived, site>>
Gui == <<progress, status>>
\* what no handler changes
Fixed == <<output, vslayout, located, configs, scripts>>

(***************************** the event pump ******************************)
\* Frames whose pc is in this set are inside the root.update() of a log() call
\* (every pc of the model except the blocking readline and the pcs at which a
\* handler has executed its last statement).
Terminal == {"failed", "complete", "cancelled", "rejected", "returned"}
PumpPcs == {"started", "vs", "cuda", "pkg", "pip", "report",
            "confirm", "rmtree", "download", "extract", "write_script",
            "popen", "loop", "post_archive", "install", "failing",
            "completing", "look", "uninstall", "pip_install"}

\* log(), lines 83-101: root.update() dispatches a pending button click.  The
\* main loop (run(), line 841) dispatches it when no handler is running.
log_dispatches ==
    /\ clicks < MaxClicks
    /\ \/ stack = <<>>
       \/ /\ Len(stack) > 0
          /\ Len(stack) < MaxDepth
          /\ Top.pc \in PumpPcs

\* The state after __init__ has built the window and logged "DeepSpeed
\* Windows Patcher Started" (lines 18-78): check_prerequisites is about to be
\* called.  The workspace is absent, or is what an earlier session left.
Start0 ==
    /\ stack = <<Frame("check_prerequisites", "started")>>
    /\ chk = NoChk
    /\ prereq = "pending"
    /\ \/ wsExists = FALSE /\ wsFiles = {} /\ archDir = FALSE /\ archived = {}
       \/ wsExists = TRUE /\ wsFiles = {"tree", "whlA"} /\ archDir = TRUE
          /\ archived = {"whlA"}
    /\ site = "none"
    /\ progress = 0
    /\ status = "Ready to start..."
    /\ version \in {"", "0.15.2"}
    /\ clicks = 0
    /\ faults = FALSE
    /\ located = NotCalled
    /\ scripts = <<<<>>, <<>>>>

Init ==
    /\ Start0
    /\ configs = <<DefaultConfig, DefaultConfig>>
    /\ machine \in {ReadyMachine, BareMachine}
    /\ vslayout = LayoutOf(machine)
    /\ output = <<" warning ">>

(************************** check_prerequisites ****************************)
\* lines 638-649: the toolchain finding
vs_check(met, m) == met /\ m.vs

\* lines 654-677: the toolkit root, then its nvcc.exe
cuda_check(met, m) == met /\ m.cuda = "ok"

\* lines 690-702: import torch; an ImportError or any other exception
torch_check(met, m) == met /\ m.torch = "ok"

\* lines 704-708: only PackageNotFoundError leads to the automatic install
needs_install(found) == found = "missing"

\* lines 705-706 and 715-717: distribution(package) answered, or raised
\* something else
package_check(met, found) == met /\ found = "present"

\* mutant of pip_check: a failed pip install is logged and forgotten
pip_check_forgotten(met, ok) == met

\* lines 709-714: the result of the one pip install
pip_check(met, ok) == met /\ ok

\* mutant of next_package: the loop stops at the first unsatisfied finding
next_package_short(c) ==
    IF c.met /\ c.i < Len(required_packages)
    THEN [pc |-> "pkg", c |-> [c EXCEPT !.i = c.i + 1]]
    ELSE [pc |-> "report", c |-> c]

\* lines 688, 723: the loop over required_packages goes on, or the check ends
next_package(c) ==
    IF c.i < Len(required_packages)
    THEN [pc |-> "pkg", c |-> [c EXCEPT !.i = c.i + 1]]
    ELSE [pc |-> "report", c |-> c]

\* lines 630-637
check_start ==
    /\ Running("check_prerequisites", "started")
    /\ progress' = 0
    /\ status' = "Checking prerequisites..."
    /\ stack' = SetTop([Top EXCEPT !.pc = "vs"])
    /\ UNCHANGED <<Fixed, faults, chk, prereq, Env, version, clicks>>

\* lines 638-652
check_vs ==
    /\ Running("check_prerequisites", "vs")
    /\ chk' = [chk EXCEPT !.ran = @ \cup {"toolchain"},
                          !.met = vs_check(chk.met, machine)]
    /\ stack' = SetTop([Top EXCEPT !.pc = "cuda"])
    /\ UNCHANGED <<Fixed, faults, prereq, Env, Gui, version, clicks>>

\* lines 653-680
check_cuda ==
    /\ Running("check_prerequisites", "cuda")
    /\ chk' = [chk EXCEPT !.ran = @ \cup {"toolkit"},
                          !.met = cuda_check(chk.met, machine), !.i = 1]
    /\ stack' = SetTop([Top EXCEPT !.pc = "pkg"])
    /\ UNCHANGED <<Fixed, faults, prereq, Env, Gui, version, clicks>>

\* lines 688-717, one iteration of the loop up to its next log()
check_package ==
    /\ Running("check_prerequisites", "pkg")
    /\ LET p == required_packages[chk.i] IN
       IF p = "torch"
       THEN LET c == [chk EXCEPT !.ran = @ \cup {p},
                                 !.met = torch_check(chk.met, machine)]
                n == next_package(c)
            IN /\ chk' = n.c
               /\ stack' = SetTop([Top EXCEPT !.pc = n.pc])
       ELSE IF needs_install(machine.pk[p])
            THEN /\ chk' = [chk EXCEPT !.pk[p] = "missing"]
                 /\ stack' = SetTop([Top EXCEPT !.pc = "pip"])
            ELSE LET c == [chk EXCEPT !.ran = @ \cup {p},
                                      !.pk[p] = machine.pk[p],
                                      !.met = package_check(chk.met, machine.pk[p])]
                     n == next_package(c)
                 IN /\ chk' = n.c
                    /\ stack' = SetTop([Top EXCEPT !.pc = n.pc])
    /\ UNCHANGED <<Fixed, faults, prereq, Env, Gui, version, clicks>>

\* lines 709-714: subprocess.check_call(pip install package)
check_pip_install ==
    /\ Running("check_prerequisites", "pip")
    /\ LET p == required_packages[chk.i]
           ok == machine.pip
           c == [chk EXCEPT !.ran = @ \cup {p},
                            !.pk[p] = IF ok THEN "installed" ELSE "failed",
                            !.tries[p] = @ + 1,
                            !.met = pip_check(chk.met, ok)]
           n == next_package(c)
       IN /\ chk' = n.c
          /\ stack' = SetTop([Top EXCEPT !.pc = n.pc])
          /\ machine' = IF ok /\ machine.lands
                         THEN [machine EXCEPT !.pk[p] = "present"]
                         ELSE machine
    /\ UNCHANGED <<Fixed, faults, prereq, Disk, Gui, version, clicks>>

\* lines 724-735; the locals die with the return
check_report ==
    /\ Running("check_prerequisites", "report")
    /\ status' = IF chk.met THEN "Ready to install" ELSE "Prerequisites check failed"
    /\ progress' = IF chk.met THEN 100 ELSE 0
    /\ prereq' = IF chk.met THEN "met" ELSE "unmet"
    /\ stack' = SetTop([Top EXCEPT !.pc = "returned"])
    /\ UNCHANGED <<Fixed, faults, chk, Env, version, clicks>>

check_prerequisites ==
    \/ check_start
    \/ check_vs
    \/ check_cuda
    \/ check_package
    \/ check_pip_install
    \/ check_report

(******************* the history of one run (a frame's trace) **************)
\* One entry per stage the run has begun: res is "run" while the stage is
\* under way, then "ok" or "fail".  n says how the stage went: for reset, 0
\* when there was no workspace, else what shutil.rmtree found (see
\* found_by_reset); for build, 1 when os.remove of the build
\* script raised; for archive, uninstall and install, the number of wheel
\* files the glob before it found.
Start(tr, stage) == Append(tr, [stage |-> stage, res |-> "run", n |-> 0])
End(tr, res, n) == [tr EXCEPT ![Len(tr)] = [@ EXCEPT !.res = res, !.n = n]]
Whole(tr, stage, res, n) == Append(tr, [stage |-> stage, res |-> res, n |-> n])
Outcome(b) == IF b THEN "ok" ELSE "fail"

Pipelines == {"build_only", "start_installation"}
InPipeline(pc) ==
    /\ Len(stack) > 0
    /\ Top.entry \in Pipelines
    /\ Top.pc = pc

(******************** build_only / start_installation **********************)
\* mutant of version_gate: the run starts whatever the version is
version_gate_open(v) == "confirm"

\* lines 412-414 (530-532): if not self.version_var.get(): showerror, return
version_gate(v) == IF v = "" THEN "rejected" ELSE "confirm"

\* lines 411-415 and 529-533: the button's handler begins; an empty version is
\* refused with a message box
pipeline_begin(entry) ==
    /\ log_dispatches
    /\ clicks' = clicks + 1
    /\ stack' = Append(stack, Frame(entry, version_gate(version)))
    /\ UNCHANGED <<Fixed, faults, chk, prereq, Env, Gui, version>>

build_only_begin == pipeline_begin("build_only")

start_installation_begin == pipeline_begin("start_installation")

\* mutant of reset_gate: the result of manage_build_directory is ignored
reset_gate_ignored(ok) == "download"

\* lines 437-438 (555-556): a False from manage_build_directory ends the run
reset_gate(ok) == IF ok THEN "download" ELSE "failing"

\* mutant of rmtree: the dist directory and its wheels survive the reset
rmtree_keeps_dist(files) == files \cap Wheels

\* line 379, shutil.rmtree(workspace): what is left of the entries of the
\* workspace when it returns
rmtree(files) == {}

\* what the reset found in the workspace it removed, for the trace: 3 when
\* it held the archive file or the unpacked directory (a run that ended
\* between its download and the end of its extraction left them), 2 when it
\* was empty, 1 otherwise
found_by_reset(files) ==
    IF files \cap {"zip", "srcdir"} # {} THEN 3
    ELSE IF files = {} THEN 2 ELSE 1

\* lines 381-387: what manage_build_directory does once the old workspace is
\* gone (or was never there): os.makedirs of the fresh workspace
fresh_workspace(f, ok, n, files) ==
    /\ wsExists' = ok
    /\ wsFiles' = IF ok THEN files ELSE {}
    /\ faults' = (faults \/ ~ok)
    /\ stack' = SetTop([f EXCEPT !.pc = reset_gate(ok),
                                 !.trace = End(f.trace, Outcome(ok), n)])

\* mutant of archive_dir_made: makedirs without exist_ok raises on a
\* directory that is already there
archive_dir_made_once(mk, exists) == mk /\ ~exists

\* line 374, os.makedirs(archive_dir, exist_ok=True): the directory is there
\* afterwards when it was there before or the system could make it
archive_dir_made(mk, exists) == mk \/ exists

\* lines 425-438 (543-556) with manage_build_directory lines 371-378
pipeline_confirm ==
    /\ InPipeline("confirm")
    /\ \E yes \in BOOLEAN :
          IF ~yes
          THEN /\ stack' = SetTop([Top EXCEPT !.pc = "cancelled"])
               /\ UNCHANGED <<Disk, Gui, faults>>
          ELSE /\ progress' = 0
               /\ status' = IF Top.entry = "build_only" THEN "Starting build..."
                                                        ELSE "Starting installation..."
               /\ LET f == [Top EXCEPT !.trace = Start(Top.trace, "reset")] IN
                  \E mk \in BOOLEAN :
                     IF ~archive_dir_made(mk, archDir)
                     THEN /\ stack' = SetTop([f EXCEPT !.pc = "failing",
                                                      !.trace = End(f.trace, "fail", 0)])
                          /\ faults' = (faults \/ ~mk)
                          /\ UNCHANGED Disk
                     ELSE /\ archDir' = TRUE
                          /\ UNCHANGED <<archived, site>>
                          /\ IF wsExists
                             THEN /\ stack' = SetTop([f EXCEPT !.pc = "rmtree"])
                                  /\ UNCHANGED <<wsExists, wsFiles, faults>>
                             ELSE \E ok \in BOOLEAN : fresh_workspace(f, ok, 0, {})
    /\ UNCHANGED <<Fixed, machine, chk, prereq, version, clicks>>

\* manage_build_directory lines 379-387, after log("Cleaning existing build
\* directory..."): shutil.rmtree, then os.makedirs
manage_build_directory_rmtree ==
    /\ InPipeline("rmtree")
    /\ IF ~wsExists
       THEN /\ stack' = SetTop([Top EXCEPT !.pc = "failing",
                                           !.trace = End(Top.trace, "fail", 1)])
            /\ UNCHANGED <<wsExists, wsFiles, faults>>
       ELSE \E removed \in BOOLEAN :
               IF removed
               THEN \E ok \in BOOLEAN :
                       fresh_workspace(Top, ok, found_by_reset(wsFiles), rmtree(wsFiles))
               ELSE /\ \E left \in SUBSET wsFiles : wsFiles' = left
                    /\ faults' = TRUE
                    /\ UNCHANGED wsExists
                    /\ stack' = SetTop([Top EXCEPT !.pc = "failing",
                                                   !.trace = End(Top.trace, "fail", 1)])
    /\ UNCHANGED <<Fixed, machine, chk, prereq, archDir, archived, site, Gui, version, clicks>>

\* mutant of raise_for_status: the request is made again
raise_for_status_retry == "download"

\* line 448 (566): response.raise_for_status() raises on an error status
\* (4xx, 5xx) and the run goes to its except clause
raise_for_status == "failing"

\* lines 441-460 (559-578): the GET, the archive file, progress 30; in the
\* trace n is 1 when the response had an error status
pipeline_download ==
    /\ InPipeline("download")
    /\ LET f == [Top EXCEPT !.trace = Start(Top.trace, "download")] IN
       \E r \in {"ok", "http_error", "io_error"} :
          CASE r = "ok" ->
                  /\ wsExists' = TRUE
                  /\ wsFiles' = wsFiles \cup {"zip"}
                  /\ progress' = 30
                  /\ UNCHANGED faults
                  /\ stack' = SetTop([f EXCEPT !.pc = "extract",
                                               !.trace = End(f.trace, "ok", 0)])
            [] r = "http_error" ->
                  /\ UNCHANGED <<wsExists, wsFiles, progress, faults>>
                  /\ stack' = SetTop([f EXCEPT !.pc = raise_for_status,
                                               !.trace = End(f.trace, "fail", 1)])
            [] r = "io_error" ->
                  /\ wsExists' = TRUE
                  /\ wsFiles' = wsFiles \cup {"zip"}
                  /\ faults' = TRUE
                  /\ UNCHANGED progress
                  /\ stack' = SetTop([f EXCEPT !.pc = "failing",
                                               !.trace = End(f.trace, "fail", 0)])
    /\ UNCHANGED <<Fixed, machine, chk, prereq, archDir, archived, site, status, version, clicks>>

\* mutant of find_vs_installation: a toolchain is taken to be there
find_vs_installation_assumed == TRUE

\* lines 248-286, as far as its callers look: is vcvars_path not None
find_vs_installation == machine.vs

\* mutant of moved_up: the archive file is left where it was downloaded
moved_up_only(files) == (files \ {"srcdir"}) \cup {"tree"}

\* lines 465-471 (583-589): the contents of DeepSpeed-<version> are moved into
\* the workspace root, the directory is removed, then the archive file
moved_up(files) == (files \ {"srcdir", "zip"}) \cup {"tree"}

\* lines 461-473 (579-591): unpack, move the contents of DeepSpeed-<version>
\* up, rmdir, remove the archive, progress 50; then run_build_process lines
\* 289-296 up to log("Using Visual Studio ...").  In the trace n is the number
\* of top-level entries of the archive that was unpacked.
pipeline_extract ==
    /\ InPipeline("extract")
    /\ LET f == [Top EXCEPT !.trace = Start(Top.trace, "extract")]
           failed == SetTop([f EXCEPT !.pc = "failing",
                                      !.trace = End(f.trace, "fail", 0)])
       IN
       IF ~wsExists \/ "zip" \notin wsFiles
       THEN /\ stack' = failed
            /\ UNCHANGED <<wsFiles, progress, faults>>
       ELSE \E layout \in {"one", "zero", "multi", "corrupt"}, moved \in BOOLEAN :
               LET unpacked == wsFiles \cup {"srcdir"}
                                  \cup (IF layout = "multi" THEN {"extra"} ELSE {})
               IN
               CASE layout \in {"zero", "corrupt"} ->
                       /\ stack' = failed
                       /\ UNCHANGED <<wsFiles, progress, faults>>
                 [] layout \in {"one", "multi"} /\ ~moved ->
                       /\ wsFiles' = unpacked \cup {"tree"}
                       /\ stack' = failed
                       /\ faults' = TRUE
                       /\ UNCHANGED progress
                 [] layout \in {"one", "multi"} /\ moved ->
                       /\ wsFiles' = moved_up(unpacked)
                       /\ progress' = 50
                       /\ UNCHANGED faults
                       /\ LET g == [f EXCEPT !.trace =
                                       End(f.trace, "ok", IF layout = "one" THEN 1 ELSE 2)]
                          IN
                             stack' = SetTop(
                                 IF find_vs_installation
                                 THEN [g EXCEPT !.pc = "write_script",
                                                !.trace = Start(g.trace, "build")]
                                 ELSE [g EXCEPT !.pc = "failing",
                                                !.trace = Whole(g.trace, "build", "fail", 0)])
    /\ UNCHANGED <<Fixed, machine, chk, prereq, wsExists, archDir, archived, site, status, version, clicks>>

\* run_build_process lines 298-337: write run_build.bat, log("Starting build")
run_build_process_script ==
    /\ InPipeline("write_script")
    /\ \E ok \in BOOLEAN :
          IF wsExists /\ ok
          THEN /\ wsFiles' = wsFiles \cup {"script"}
               /\ stack' = SetTop([Top EXCEPT !.pc = "popen"])
               /\ UNCHANGED faults
          ELSE /\ faults' = (faults \/ wsExists)
               /\ UNCHANGED wsFiles
               /\ stack' = SetTop([Top EXCEPT !.pc = "failing",
                                              !.trace = End(Top.trace, "fail", 0)])
    /\ UNCHANGED <<Fixed, machine, chk, prereq, wsExists, archDir, archived, site, Gui, version, clicks>>

\* run_build_process lines 338-347: subprocess.Popen, then the first readline
run_build_process_popen ==
    /\ InPipeline("popen")
    /\ stack' = SetTop([Top EXCEPT !.pc = "readline", !.proc = "alive"])
    /\ UNCHANGED <<Fixed, faults, chk, prereq, Env, Gui, version, clicks>>

\* line 351: output.strip() removes the white space around the line
strip(line) == IF line = " warning " THEN "warning" ELSE line

\* run_build_process lines 346-352: readline returned a line; log() it
run_build_process_readline ==
    /\ Len(stack) > 0
    /\ Top.entry \in Pipelines
    /\ Top.pc \in {"readline", "loop"}
    /\ Top.pipe # <<>>
    /\ stack' = SetTop([Top EXCEPT !.pc = "loop",
                                   !.logged = Append(@, strip(Head(Top.pipe))),
                                   !.pipe = Tail(@)])
    /\ UNCHANGED <<Fixed, faults, chk, prereq, Env, Gui, version, clicks>>

\* mutant of loop_ends: the loop has no break
loop_ends_never(pipe, proc) == FALSE

\* mutant of loop_ends: the loop is left as soon as the child has exited
loop_ends_on_exit(pipe, proc) == proc \in {"exit0", "exit1"}

\* line 348: readline() returned '' (nothing is left in the pipe and its
\* writing end is closed) and poll() is not None
loop_ends(pipe, proc) == pipe = <<>> /\ proc \in {"exit0", "exit1"}

\* mutant of build_succeeded: the return code is not looked at
build_succeeded_always(proc) == TRUE

\* run_build_process line 354: success is a zero return code
build_succeeded(proc) == proc = "exit0"

\* archive_wheel lines 392-393 (install_wheel 502-503, start_installation
\* 605-606): list(Path(wheel_dir).glob('*.whl'))
wheel_files == IF wsExists THEN wsFiles \cap Wheels ELSE {}

\* mutant of copy2: the wheel is moved, as the comment at line 402 says
copy2_moves(files, w) == files \ {w}

\* line 403, shutil.copy2: what the directory copied from holds afterwards
copy2(files, w) == files

\* mutant of archive_gate: a False from archive_wheel raises like a failed
\* build
archive_gate_strict(ok) == IF ok THEN "post_archive" ELSE "failing"

\* lines 480-481 (598-599): a False from archive_wheel is logged as a
\* warning and the run goes on
archive_gate(ok) == "post_archive"

\* archive_wheel lines 394-409 for the file wheel_files[0] = w: the archive
\* sub-directory is made and the file copied into it, or an exception is caught
archive_wheel(f, w, ok) ==
    /\ archDir' = (archDir \/ ok)
    /\ archived' = IF ok THEN archived \cup {w} ELSE archived
    /\ stack' = SetTop([f EXCEPT !.pc = archive_gate(ok),
                                 !.trace = Whole(f.trace, "archive", Outcome(ok),
                                                 Cardinality(wheel_files))])

\* run_build_process lines 348-367: readline returned '' and the child has
\* exited; on success the caller goes on to archive_wheel (lines 479-481,
\* 597-599), whose outcome is logged
run_build_process_exit ==
    /\ Len(stack) > 0
    /\ Top.entry \in Pipelines
    /\ Top.pc \in {"readline", "loop"}
    /\ loop_ends(Top.pipe, Top.proc)
    /\ IF ~build_succeeded(Top.proc)
       THEN /\ stack' = SetTop([Top EXCEPT !.pc = "failing",
                                           !.trace = End(Top.trace, "fail", 0)])
            /\ UNCHANGED <<wsFiles, archDir, archived, faults>>
       ELSE \E rm \in BOOLEAN :
               LET kept == IF rm THEN wsFiles \ {"script"} ELSE wsFiles
                   f == [Top EXCEPT !.trace =
                               End(Top.trace, "ok",
                                   IF ~rm /\ "script" \in wsFiles THEN 1 ELSE 0)]
               IN
               IF wheel_files = {}
               THEN /\ wsFiles' = kept
                    /\ stack' = SetTop([f EXCEPT !.pc = archive_gate(FALSE),
                                          !.trace = Whole(f.trace, "archive", "fail", 0)])
                    /\ faults' = (faults \/ (~rm /\ "script" \in wsFiles))
                    /\ UNCHANGED <<archDir, archived>>
               ELSE \E w \in wheel_files, ok \in BOOLEAN :
                       /\ wsFiles' = IF ok THEN copy2(kept, w) ELSE kept
                       /\ archive_wheel(f, w, ok)
                       /\ faults' = (faults \/ ~ok \/ (~rm /\ "script" \in wsFiles))
    /\ UNCHANGED <<Fixed, machine, chk, prereq, wsExists, site, Gui, version, clicks>>

\* build_only lines 483-485: progress 100, "Build complete!"
build_only_complete ==
    /\ Running("build_only", "post_archive")
    /\ progress' = 100
    /\ status' = "Build complete!"
    /\ stack' = SetTop([Top EXCEPT !.pc = "completing"])
    /\ UNCHANGED <<Fixed, faults, chk, prereq, Env, version, clicks>>

\* start_installation lines 601-604: progress 90, log("Installing wheel...")
start_installation_progress ==
    /\ Running("start_installation", "post_archive")
    /\ progress' = 90
    /\ stack' = SetTop([Top EXCEPT !.pc = "install"])
    /\ UNCHANGED <<Fixed, faults, chk, prereq, Env, status, version, clicks>>

\* start_installation lines 605-615: glob, pip install --force-reinstall of
\* wheel_files[0], progress 100, "Installation complete!"
start_installation_install ==
    /\ Running("start_installation", "install")
    /\ IF wheel_files = {}
       THEN /\ stack' = SetTop([Top EXCEPT !.pc = "failing",
                                  !.trace = Whole(Top.trace, "install", "fail", 0)])
            /\ UNCHANGED <<site, Gui>>
       ELSE \E w \in wheel_files, ok \in BOOLEAN :
               LET n == Cardinality(wheel_files) IN
               IF ok
               THEN /\ site' = w
                    /\ progress' = 100
                    /\ status' = "Installation complete!"
                    /\ stack' = SetTop([Top EXCEPT !.pc = "completing", !.wheel = w,
                                          !.trace = Whole(Top.trace, "install", "ok", n)])
               ELSE /\ stack' = SetTop([Top EXCEPT !.pc = "failing", !.wheel = w,
                                          !.trace = Whole(Top.trace, "install", "fail", n)])
                    /\ UNCHANGED <<site, Gui>>
    /\ UNCHANGED <<Fixed, faults, machine, chk, prereq, wsExists, wsFiles, archDir, archived, version, clicks>>

\* lines 493-496 and 623-626, after log("Error during ..."): the failure status
pipeline_failed ==
    /\ InPipeline("failing")
    /\ status' = IF Top.entry = "build_only" THEN "Build failed!"
                                             ELSE "Installation failed!"
    /\ stack' = SetTop([Top EXCEPT !.pc = "failed"])
    /\ UNCHANGED <<Fixed, faults, chk, prereq, Env, progress, version, clicks>>

\* lines 486-491 and 616-621, after log("... completed successfully!"): the
\* closing dialog, and show_cuda_setup_info when the user asks for it
pipeline_completed ==
    /\ InPipeline("completing")
    /\ stack' = SetTop([Top EXCEPT !.pc = "complete"])
    /\ UNCHANGED <<Fixed, faults, chk, prereq, Env, Gui, version, clicks>>

(****************************** install_wheel ******************************)
\* line 501: log("Looking for built wheel...")
install_wheel_begin ==
    /\ log_dispatches
    /\ clicks' = clicks + 1
    /\ stack' = Append(stack, Frame("install_wheel", "look"))
    /\ UNCHANGED <<Fixed, faults, chk, prereq, Env, Gui, version>>

\* lines 502-511: glob, wheel_files[0], log("Uninstalling existing DeepSpeed...")
install_wheel_look ==
    /\ Running("install_wheel", "look")
    /\ IF wheel_files = {}
       THEN stack' = SetTop([Top EXCEPT !.pc = "failing"])
       ELSE \E w \in wheel_files :
               stack' = SetTop([Top EXCEPT !.pc = "uninstall", !.wheel = w,
                                  !.trace = <<[stage |-> "uninstall", res |-> "run",
                                               n |-> Cardinality(wheel_files)]>>])
    /\ UNCHANGED <<Fixed, faults, chk, prereq, Env, Gui, version, clicks>>

\* lines 512-516: pip uninstall deepspeed -y with check=False
install_wheel_uninstall ==
    /\ Running("install_wheel", "uninstall")
    /\ \E ok \in BOOLEAN :
          /\ site' = IF ok THEN "none" ELSE site
          /\ stack' = SetTop([Top EXCEPT !.pc = "pip_install",
                                !.trace = Whole(End(Top.trace, Outcome(ok), Top.trace[1].n),
                                                "install", "run", Top.trace[1].n)])
    /\ UNCHANGED <<Fixed, faults, machine, chk, prereq, wsExists, wsFiles, archDir, archived, Gui, version, clicks>>

\* lines 517-522: pip install of the file found at line 507
install_wheel_install ==
    /\ Running("install_wheel", "pip_install")
    /\ \E ok \in BOOLEAN :
          IF ok /\ Top.wheel \in wheel_files
          THEN /\ site' = Top.wheel
               /\ stack' = SetTop([Top EXCEPT !.pc = "completing",
                                     !.trace = End(Top.trace, "ok", Top.trace[2].n)])
          ELSE /\ UNCHANGED site
               /\ stack' = SetTop([Top EXCEPT !.pc = "failing",
                                     !.trace = End(Top.trace, "fail", Top.trace[2].n)])
    /\ UNCHANGED <<Fixed, faults, machine, chk, prereq, wsExists, wsFiles, archDir, archived, Gui, version, clicks>>

\* lines 523 and 525-527: the closing message box; no status is set
install_wheel_end ==
    /\ Len(stack) > 0
    /\ Top.entry = "install_wheel"
    /\ Top.pc \in {"completing", "failing"}
    /\ stack' = SetTop([Top EXCEPT !.pc = IF Top.pc = "completing" THEN "complete"
                                                                ELSE "failed"])
    /\ UNCHANGED <<Fixed, faults, chk, prereq, Env, Gui, version, clicks>>

\* the handler returns to the log() call (or to the main loop) that ran it
handler_return ==
    /\ Len(stack) > 0
    /\ Top.pc \in Terminal
    /\ stack' = Pop
    /\ chk' = IF Top.entry = "check_prerequisites" THEN NoChk ELSE chk
    /\ UNCHANGED <<Fixed, faults, prereq, Env, Gui, version, clicks>>

(************************* the build subprocess ****************************)
\* the child of frame i writes a line to the pipe given to Popen (lines 338-344)
ChildWrite(i) ==
    /\ stack[i].proc = "alive"
    /\ Len(stack[i].pipe) < PipeCap
    /\ stack[i].sent < Len(output)
    /\ stack' = [stack EXCEPT ![i].pipe = Append(@, output[stack[i].sent + 1]),
                              ![i].sent = @ + 1]
    /\ UNCHANGED <<Fixed, faults, chk, prereq, Env, Gui, version, clicks>>

\* the child of frame i has printed all it prints and exits: run_build.bat
\* ends with the exit code of
\* setup.py bdist_wheel (lines 333-334), which writes its wheels to dist/
ChildExit(i) ==
    /\ stack[i].proc = "alive"
    /\ stack[i].sent = Len(output)
    /\ \E code \in {0, 1}, made \in SUBSET Wheels :
          /\ code = 0 => wsExists
          /\ code = 1 => made = {}
          /\ wsFiles' = wsFiles \cup made
          /\ stack' = [stack EXCEPT ![i].proc = IF code = 0 THEN "exit0" ELSE "exit1"]
    /\ UNCHANGED <<Fixed, faults, machine, chk, prereq, wsExists, archDir, archived, site, Gui, version, clicks>>

Child ==
    \E i \in 1..Len(stack) : ChildWrite(i) \/ ChildExit(i)

Next ==
    \/ check_prerequisites
    \/ build_only_begin
    \/ start_installation_begin
    \/ install_wheel_begin
    \/ pipeline_confirm
    \/ manage_build_directory_rmtree
    \/ pipeline_download
    \/ pipeline_extract
    \/ run_build_process_script
    \/ run_build_process_popen
    \/ run_build_process_readline
    \/ run_build_process_exit
    \/ build_only_complete
    \/ start_installation_progress
    \/ start_installation_install
    \/ pipeline_failed
    \/ pipeline_completed
    \/ install_wheel_look
    \/ install_wheel_uninstall
    \/ install_wheel_install
    \/ install_wheel_end
    \/ handler_return
    \/ Child

Spec == Init /\ [][Next]_vars

(***************************************************************************)
(* The same program under the scheduling the code has: a handler that has  *)
(* begun runs on (Python executes its next statement, every call of the    *)
(* operating system returns), and the child process goes on printing and   *)
(* then exits.  Nothing makes the user click a button.                     *)
(***************************************************************************)
RunsOn ==
    \/ check_prerequisites
    \/ pipeline_confirm
    \/ manage_build_directory_rmtree
    \/ pipeline_download
    \/ pipeline_extract
    \/ run_build_process_script
    \/ run_build_process_popen
    \/ run_build_process_readline
    \/ run_build_process_exit
    \/ build_only_complete
    \/ start_installation_progress
    \/ start_installation_install
    \/ pipeline_failed
    \/ pipeline_completed
    \/ install_wheel_look
    \/ install_wheel_uninstall
    \/ install_wheel_install
    \/ install_wheel_end
    \/ handler_return
    \/ Child

FairSpec == Init /\ [][Next]_vars /\ WF_vars(RunsOn)

(***************************************************************************)
(* The startup check alone, on every machine: no button is clicked while   *)
(* check_prerequisites runs.                                               *)
(***************************************************************************)
PrereqInit ==
    /\ Start0
    /\ configs = <<DefaultConfig, DefaultConfig>>
    /\ machine \in Machines
    /\ vslayout = LayoutOf(machine)
    /\ output = <<>>

PrereqNext ==
    \/ check_prerequisites
    \/ handler_return

PrereqSpec == PrereqInit /\ [][PrereqNext]_vars

(***************************************************************************)
(* The output loop of run_build_process, for every output of the build:    *)
(* a run that has written run_build.bat and is about to start it.          *)
(***************************************************************************)
Outputs == UNION {[1..n -> Lines] : n \in 0..MaxLines}

OutputInit ==
    /\ stack = <<[Frame("build_only", "popen") EXCEPT
                     !.trace = <<[stage |-> "reset", res |-> "ok", n |-> 0],
                                 [stage |-> "download", res |-> "ok", n |-> 0],
                                 [stage |-> "extract", res |-> "ok", n |-> 1],
                                 [stage |-> "build", res |-> "run", n |-> 0]>>]>>
    /\ machine = ReadyMachine
    /\ vslayout = LayoutOf(machine)
    /\ located = NotCalled
    /\ configs = <<DefaultConfig, DefaultConfig>>
    /\ scripts = <<<<>>, <<>>>>
    /\ chk = NoChk
    /\ prereq = "met"
    /\ wsExists = TRUE /\ wsFiles = {"tree", "script"}
    /\ archDir = TRUE /\ archived = {}
    /\ site = "none"
    /\ progress = 50
    /\ status = "Starting build..."
    /\ version = "0.15.2"
    /\ clicks = 1
    /\ faults = FALSE
    /\ output \in Outputs

OutputNext ==
    \/ run_build_process_popen
    \/ run_build_process_readline
    \/ run_build_process_exit
    \/ Child

OutputSpec == OutputInit /\ [][OutputNext]_vars

(***************************************************************************)
(* The script of run_build_process alone: two executions, each with its    *)
(* own settings.                                                           *)
(***************************************************************************)
ScriptInit ==
    /\ Start0
    /\ machine = ReadyMachine
    /\ vslayout = LayoutOf(machine)
    /\ output = <<>>
    /\ configs \in [1..2 -> Configs]

\* lines 299-334: execution i writes its run_build.bat
write_script(i) ==
    /\ scripts[i] = <<>>
    /\ scripts' = [scripts EXCEPT ![i] = run_build_bat(configs[i])]
    /\ UNCHANGED <<stack, machine, chk, prereq, Disk, Gui, version, clicks, faults,
                   output, vslayout, located, configs>>

ScriptNext == \E i \in 1..2 : write_script(i)

ScriptSpec == ScriptInit /\ [][ScriptNext]_vars

(***************************************************************************)
(* find_vs_installation alone, on every layout of default paths and        *)
(* registry keys.                                                          *)
(***************************************************************************)
LocateInit ==
    /\ Start0
    /\ configs = <<DefaultConfig, DefaultConfig>>
    /\ vslayout \in Layouts
    /\ machine = [ReadyMachine EXCEPT !.vs = (find_vs_installation_in(vslayout) # NotFound)]
    /\ output = <<>>

\* lines 638 and 291: self.find_vs_installation() is called
locate ==
    /\ located = NotCalled
    /\ located' = find_vs_installation_in(vslayout)
    /\ UNCHANGED <<stack, machine, chk, prereq, Disk, Gui, version, clicks, faults,
                   output, vslayout, configs, scripts>>

LocateNext == locate

LocateSpec == LocateInit /\ [][LocateNext]_vars

(***************************************************************************)
(*                              The claims                                 *)
(***************************************************************************)
Frames == {stack[i] : i \in 1..Len(stack)}
Runs == {f \in Frames : f.entry \in Pipelines}
StageOrder == <<"reset", "download", "extract", "build", "archive", "install">>

\* the stages of a run are begun in the pipeline's order, install only by
\* start_installation, and only the last one can be under way
InOrder(f) ==
    /\ Len(f.trace) <= Len(StageOrder)
    /\ \A k \in 1..Len(f.trace) : f.trace[k].stage = StageOrder[k]
    /\ \A k \in 1..(Len(f.trace) - 1) : f.trace[k].res # "run"
    /\ Len(f.trace) = 6 => f.entry = "start_installation"

\* C1 as stated: in every run the stages are begun in the order reset,
\* download, extract, build, archive, install (install only in
\* start_installation), and a stage is begun only if every earlier stage of
\* the run succeeded.
C1_EveryStageGates ==
    \A f \in Runs :
        /\ InOrder(f)
        /\ \A k \in 1..(Len(f.trace) - 1) : f.trace[k].res = "ok"

\* C1 as amended: the order is as stated; reset, download, extract and build
\* gate what follows on their success; a failed archive_wheel gates nothing.
C1_StagesInOrderGatedUpToBuild ==
    \A f \in Runs :
        /\ InOrder(f)
        /\ \A k \in 1..(Len(f.trace) - 1) :
              f.trace[k].res = "ok" \/ f.trace[k].stage = "archive"
        /\ \A k \in 1..Len(f.trace) :
              f.trace[k].res = "fail" /\ f.trace[k].stage # "archive"
                 => k = Len(f.trace) /\ f.pc \in {"failing", "failed"}

\* C1 witness: a start_installation run went through all six stages
C1_Witness ==
    /\ Len(stack) = 1
    /\ Top.entry = "start_installation"
    /\ Top.pc = "complete"
    /\ Len(Top.trace) = 6
    /\ \A k \in 1..6 : Top.trace[k].res = "ok"

\* C2: no handler begins while another handler (or the startup check) is
\* running, and no run resets the workspace with shutil.rmtree while the
\* build subprocess of another run is alive.
C2_NoConcurrentRuns ==
    /\ Len(stack) <= 1
    /\ \A i, j \in 1..Len(stack) :
          i < j /\ stack[i].proc = "alive" /\ stack[j].entry \in Pipelines
             => ~(/\ stack[j].trace # <<>>
                  /\ stack[j].trace[1].res # "run"
                  /\ stack[j].trace[1].n >= 1)

\* C2, its last part alone: shutil.rmtree is not called by one run while the
\* build subprocess of another run is alive.
C2_NoResetUnderLiveBuild ==
    \A i, j \in 1..Len(stack) :
        i < j /\ stack[i].proc = "alive" /\ stack[j].entry \in Pipelines
           => ~(/\ stack[j].trace # <<>>
                /\ stack[j].trace[1].res # "run"
                /\ stack[j].trace[1].n >= 1)

\* the status a failed run sets
FailStatus(f) == IF f.entry = "build_only" THEN "Build failed!"
                                           ELSE "Installation failed!"

\* C3: once the loop of run_build_process has seen a child that exited with a
\* non-zero code, the build stage has failed, the run is on its failure path
\* (and ends with the failure status), and it has begun neither archive_wheel
\* nor a pip install.
C3_FailedBuildArchivesNothing ==
    \A i \in 1..Len(stack) :
        LET f == stack[i] IN
        f.entry \in Pipelines /\ f.proc = "exit1" /\ f.pc \notin {"readline", "loop"}
           => /\ Len(f.trace) = 4
              /\ f.trace[4] = [stage |-> "build", res |-> "fail", n |-> 0]
              /\ f.pc \in {"failing", "failed"}
              /\ f.wheel = "none"
              /\ f.pc = "failed" => status = FailStatus(f)

\* C3 witness: a run has ended as failed after its child exited with code 1
C3_Witness ==
    /\ Len(stack) = 1
    /\ Top.entry \in Pipelines
    /\ Top.proc = "exit1"
    /\ Top.pc = "failed"

\* C4: when run_build_process has returned after starting the child, and
\* os.remove did not raise, run_build.bat is not in the workspace.
C4_ScriptDeletedAfterBuild ==
    /\ Len(stack) = 1
    /\ Top.entry \in Pipelines
    /\ Top.proc \in {"exit0", "exit1"}
    /\ Top.pc \in {"failing", "post_archive"}
    /\ Top.trace[4].n = 0
    => "script" \notin wsFiles

\* C5: a run whose child exited with code 0 and whose archive_wheel found no
\* wheel file in dist does not reach its completion (progress 100 and
\* "Build complete!" / "Installation complete!").
C5_NoArtifactFailsRun ==
    \A f \in Runs :
        /\ f.proc = "exit0"
        /\ Len(f.trace) >= 5
        /\ f.trace[5].n = 0
        => f.pc \notin {"completing", "complete"}

\* C6: a step that found more than one wheel file in dist neither copies nor
\* installs one of them.
C6_RefusesSeveralArtifacts ==
    \A f \in Frames :
        \A k \in 1..Len(f.trace) :
            f.trace[k].stage \in {"archive", "install"} /\ f.trace[k].n > 1
               => f.trace[k].res = "fail"

\* C7: a run started from the main loop (check_prerequisites has returned by
\* then) resets the workspace only if the check found every prerequisite.
C7_PrerequisitesGateTheRun ==
    /\ Len(stack) = 1
    /\ Top.entry \in Pipelines
    /\ Top.trace # <<>>
    /\ Top.trace[1].res = "ok"
    => prereq = "met"

\* what check_prerequisites has to find out about the machine
AllSatisfied ==
    /\ machine.vs
    /\ machine.cuda = "ok"
    /\ machine.torch = "ok"
    /\ \A p \in Installable : machine.pk[p] = "present" \/ chk.pk[p] = "installed"

CheckIsOver ==
    /\ Len(stack) > 0
    /\ Top.entry = "check_prerequisites"
    /\ Top.pc \in {"report", "returned"}

\* C8: when check_prerequisites ends it has checked the toolchain, the
\* toolkit and every package, whatever it found on the way; its result is
\* true exactly when the toolchain was found, the toolkit root and nvcc exist
\* and every package is present or its automatic install succeeded; with the toolkit directory absent the result is false.
C8_CheckIsCompleteAndExact ==
    CheckIsOver
       => /\ chk.ran = Subjects
          /\ chk.met <=> AllSatisfied
          /\ machine.cuda = "absent" => ~chk.met
          /\ Top.pc = "returned" => prereq = IF AllSatisfied THEN "met" ELSE "unmet"

\* C8 witness: the check ended on a machine without the toolkit directory but
\* with every other prerequisite
C8_Witness ==
    /\ CheckIsOver
    /\ machine.cuda = "absent"
    /\ machine.vs
    /\ machine.torch = "ok"
    /\ \A p \in Installable : machine.pk[p] = "present"
    /\ chk.ran = Subjects
    /\ ~chk.met

\* C9: pip install is run at most once for a package, only for ninja and
\* psutil and only when the package was missing; a failed install makes the
\* result false and the packages after it are still checked.
C9_OneInstallAttempt ==
    /\ \A p \in Subjects : chk.tries[p] <= 1
    /\ \A p \in Subjects \ Installable : chk.tries[p] = 0
    /\ \A p \in Installable :
          /\ chk.tries[p] = 1 <=> chk.pk[p] \in {"installed", "failed"}
          /\ chk.pk[p] = "failed" => ~chk.met /\ machine.pk[p] = "missing"
    /\ CheckIsOver => chk.ran = Subjects

\* C9 witness: the install of ninja failed and psutil was checked after it
C9_Witness ==
    /\ CheckIsOver
    /\ chk.pk["ninja"] = "failed"
    /\ chk.tries["ninja"] = 1
    /\ chk.pk["psutil"] \in {"present", "failed"}
    /\ "psutil" \in chk.ran

\* the step in which manage_build_directory returns to the running handler
ResetReturns ==
    /\ Len(stack) > 0
    /\ Len(stack') = Len(stack)
    /\ Top.entry \in Pipelines
    /\ Top.trace = <<>> \/ (Len(Top.trace) = 1 /\ Top.trace[1].res = "run")
    /\ Len(Top'.trace) = 1
    /\ Top'.trace[1].res # "run"

\* C11: manage_build_directory is idempotent.  Whatever the workspace is when
\* it is called (absent, holding files, or the empty directory an earlier
\* call left), as long as no operating-system call has failed it returns
\* True and leaves an existing, empty workspace and an existing archive
\* directory; so a second call in a row succeeds as the first did.
C11_ResetIdempotent ==
    [][ResetReturns /\ ~faults'
         => /\ Top'.trace[1].res = "ok"
            /\ wsExists' /\ wsFiles' = {} /\ archDir']_vars

\* C11 witness: a reset has returned True on the empty workspace that an
\* earlier reset left (n = 2: rmtree was called on an empty directory)
C11_Witness ==
    /\ Len(stack) > 0
    /\ Top.entry \in Pipelines
    /\ Top.pc = "download"
    /\ Top.trace = <<[stage |-> "reset", res |-> "ok", n |-> 2]>>
    /\ ~faults
    /\ wsExists /\ wsFiles = {} /\ archDir

\* C10: the download of a run starts in a workspace that exists and is empty,
\* after the reset of that run succeeded.
C10_DownloadStartsInEmptyWorkspace ==
    \A f \in Runs :
        f.pc = "download" /\ f = Top
           => /\ f.trace[1].res = "ok"
              /\ wsExists
              /\ wsFiles = {}

\* the first default path with a vcvars64.bat, the first valid registry key
FirstRoot == CHOOSE i \in vslayout.roots : \A k \in vslayout.roots : i <= k
ValidKeys == {j \in DOMAIN vslayout.reg : vslayout.reg[j] = "valid"}
FirstKey == CHOOSE j \in ValidKeys : \A k \in ValidKeys : j <= k

\* C12: find_vs_installation returns the earliest default path that has a
\* vcvars64.bat; when there is none, the earliest registry key (unreadable,
\* empty and stale keys skipped) that leads to one; and (None, None, None)
\* exactly when neither exists.
C12_FirstMatchInPriorityOrder ==
    located # NotCalled =>
        /\ vslayout.roots # {} =>
              located = [name |-> default_vs_paths[FirstRoot], from |-> "default",
                         index |-> FirstRoot]
        /\ vslayout.roots = {} /\ ValidKeys # {} =>
              located = [name |-> vs_reg_paths[FirstKey].name, from |-> "registry",
                         index |-> FirstKey]
        /\ located = NotFound <=> (vslayout.roots = {} /\ ValidKeys = {})

\* C12 witness: two default paths and a registry key match, an earlier key
\* is unreadable, and the function has returned the first default path
C12_Witness ==
    /\ located # NotCalled
    /\ vslayout.roots = {2, 4}
    /\ vslayout.reg[1] = "unreadable"
    /\ vslayout.reg[2] = "valid"
    /\ located.index = 2 /\ located.from = "default"

\* the lines as log() receives them, and what the child of a run has written
Stripped(ls) == [i \in 1..Len(ls) |-> strip(ls[i])]
Emitted(f) == SubSeq(output, 1, f.sent)
LoopLeft(f) == f.proc \in {"exit0", "exit1"} /\ f.pc \notin {"readline", "loop"}

Gets(f) == {i \in 1..Len(f.trace) : f.trace[i].stage = "download"}
Refused(f) ==
    {i \in Gets(f) : f.trace[i] = [stage |-> "download", res |-> "fail", n |-> 1]}

\* the step in which the running handler's request gets an error status
GetRefused ==
    /\ Len(stack) > 0
    /\ Len(stack') = Len(stack)
    /\ Refused(Top) = {}
    /\ Refused(Top') # {}

\* C14: a run makes at most one request for the source archive (exactly one
\* once it is past its download) and never a second; an error status ends
\* the run: the step that receives it writes nothing to the workspace, the
\* download is the run's last stage (no extraction, no build) and the run is
\* on its failure path.
C14_OneGetErrorStatusFatal ==
    /\ [](\A f \in Runs :
            /\ Cardinality(Gets(f)) <= 1
            /\ f.pc \in {"extract", "write_script", "popen", "readline", "loop",
                         "post_archive", "install", "completing", "complete"}
                  => Cardinality(Gets(f)) = 1
            /\ Refused(f) # {}
                  => /\ Refused(f) = {Len(f.trace)}
                     /\ f.pc \in {"failing", "failed"})
    /\ [][GetRefused => wsFiles' = wsFiles /\ wsExists' = wsExists]_vars

\* C14 witness: a run has failed on an error status, the workspace still as
\* its reset left it
C14_Witness ==
    /\ Len(stack) > 0
    /\ Top.entry \in Pipelines
    /\ Top.pc = "failed"
    /\ Refused(Top) = {2}
    /\ Top.trace[1].res = "ok"
    /\ wsExists /\ wsFiles = {}
    /\ status \in {"Build failed!", "Installation failed!"}

\* the extract stage of a run, and the step in which the running handler
\* completes it for an archive with exactly one top-level entry
Extracted(f) ==
    {i \in 1..Len(f.trace) :
        f.trace[i] = [stage |-> "extract", res |-> "ok", n |-> 1]}
FetchCompletes ==
    /\ Len(stack) > 0
    /\ Len(stack') = Len(stack)
    /\ Extracted(Top) = {}
    /\ Extracted(Top') # {}

\* C15: when download and extraction complete for an archive with exactly
\* one top-level entry, the workspace root holds that entry's contents (the
\* source tree), the archive file and the emptied DeepSpeed-<version>
\* directory are gone, and the fetch has added nothing else.
C15_FetchRoundTrips ==
    [][FetchCompletes
         => /\ "zip" \in wsFiles
            /\ "tree" \in wsFiles'
            /\ "zip" \notin wsFiles' /\ "srcdir" \notin wsFiles'
            /\ wsFiles' \ {"tree"} = wsFiles \ {"zip", "srcdir", "tree"}]_vars

\* C15 witness: the fetch of a run has completed in the workspace its reset
\* had emptied, which now holds the source tree and nothing else
C15_Witness ==
    /\ Len(stack) > 0
    /\ Top.entry \in Pipelines
    /\ Top.pc = "write_script"
    /\ Extracted(Top) = {3}
    /\ wsExists /\ wsFiles = {"tree"}

\* the step in which archive_wheel, having found a wheel, returns to the
\* running handler
ArchiveReturns ==
    /\ Len(stack) > 0
    /\ Len(stack') = Len(stack)
    /\ Len(Top'.trace) = Len(Top.trace) + 1
    /\ Top'.trace[Len(Top'.trace)].stage = "archive"
    /\ Top'.trace[Len(Top'.trace)].n >= 1

C17_UninstallBeforeInstall ==
    \A f \in Frames :
        \A i \in 1..Len(f.trace) :
            f.trace[i].stage = "install" /\ f.trace[i].n >= 1
               => /\ i > 1
                  /\ f.trace[i - 1].stage = "uninstall"
                  /\ f.trace[i - 1].res \in {"ok", "fail"}

\* the executions that have written their script
Written == {i \in 1..2 : scripts[i] # <<>>}
\* the lines of a script that set a build option: every DS_BUILD_ variable
\* but the version-skip marker DS_BUILD_STRING
FlagLines(s) ==
    {i \in 1..Len(s) :
        /\ s[i].cmd = "set"
        /\ s[i].name \notin {"PYTHONUTF8", "PYTHONIOENCODING", "DS_BUILD_STRING",
                              "CUDA_PATH", "CUDA_HOME", "DISTUTILS_USE_SDK"}}

\* C18: the script sets one flag per entry of self.build_options, under the
\* entry's own name, to 1 when the entry is ticked and to 0 when it is not.
C18_OneFlagPerOption ==
    \A e \in Written :
        /\ \A o \in build_options :
              \E i \in FlagLines(scripts[e]) :
                  /\ scripts[e][i].name = o
                  /\ scripts[e][i].value = IF o \in configs[e].ticked THEN "1" ELSE "0"
        /\ Cardinality(FlagLines(scripts[e])) = Cardinality(build_options)

\* where a line is in a script (0 when it is not there)
Where(s, line) ==
    IF \E i \in 1..Len(s) : s[i] = line
    THEN CHOOSE i \in 1..Len(s) : s[i] = line
    ELSE 0

\* the parts of the script C19 names, in the order it names them, the option
\* flags left out (they are the FlagLines)
Parts(cfg) ==
    << BatLine("chcp 65001", ""),
       BatLine("call \"{}\"", cfg.vcvars),
       SetLine("DS_BUILD_STRING", "nogit", ""),
       SetLine("CUDA_PATH", "C:\\Program Files\\NVIDIA GPU Computing Toolkit\\CUDA\\v{}",
               cfg.cuda),
       SetLine("CUDA_HOME", "%CUDA_PATH%", ""),
       SetLine("DISTUTILS_USE_SDK", "1", ""),
       BatLine("echo ============ Environment Variables ============", ""),
       BatLine("cd /d \"{}\"", cfg.dir),
       BatLine("\"{sys.executable}\" setup.py bdist_wheel", "") >>

\* C19: for every toolkit version, workspace and toolchain the script has,
\* in this order, the UTF-8 code page, the call of the toolchain's
\* vcvars64.bat, DS_BUILD_STRING=nogit, CUDA_PATH ending in v<toolkit
\* version>, CUDA_HOME, DISTUTILS_USE_SDK, the option flags, the echo of the
\* environment, the cd to the workspace and the bdist_wheel command, which
\* only the line that passes on its exit code follows.
C19_ScriptPartsInOrder ==
    \A e \in Written :
        LET s == scripts[e]
            p == Parts(configs[e])
            at == [k \in 1..Len(p) |-> Where(s, p[k])]
        IN /\ \A k \in 1..Len(p) : at[k] > 0
           /\ \A k \in 1..(Len(p) - 1) : at[k] < at[k + 1]
           /\ FlagLines(s) # {}
           /\ \A i \in FlagLines(s) : at[6] < i /\ i < at[7]
           /\ at[Len(p)] = Len(s) - 1
           /\ s[Len(s)] = BatLine("if errorlevel 1 exit /b 1", "")

\* C19 witness: a script has been written for toolkit 12.1
C19_Witness ==
    /\ 1 \in Written
    /\ configs[1].cuda = "12.1"
    /\ configs[1].ticked = {}
    /\ \E i \in 1..Len(scripts[1]) :
          scripts[1][i].name = "CUDA_PATH" /\ scripts[1][i].arg = "12.1"

\* C20: two executions with the same settings write the same script, and
\* two executions that differ in the toolkit version, the workspace, a build
\* option or the vcvars64.bat path write different scripts.
C20_ScriptReproducible ==
    Written = {1, 2} =>
        /\ configs[1] = configs[2] => scripts[1] = scripts[2]
        /\ configs[1] # configs[2] => scripts[1] # scripts[2]

\* the step in which the except clause of a run ends (lines 493-496, 623-626)
\* or in which the failed run returns to its caller
FailureHandled ==
    /\ Len(stack) > 0
    /\ Top.entry \in Pipelines
    /\ \/ Top.pc = "failing" /\ Len(stack') = Len(stack) /\ Top'.pc = "failed"
       \/ Top.pc = "failed" /\ stack' = Pop

\* the step in which a stage after the reset fails
StageFails ==
    /\ Len(stack) > 0
    /\ Len(stack') = Len(stack)
    /\ Top.entry \in Pipelines
    /\ Top.pc \notin {"confirm", "rmtree", "failing"}
    /\ Top'.pc = "failing"

PipelineStep ==
    \/ /\ Len(stack) > 0
       /\ Top.entry \in Pipelines
    \/ /\ Len(stack') = Len(stack) + 1
       /\ stack'[Len(stack')].entry \in Pipelines

\* C22: with an empty version selected, build_only and start_installation
\* return at once: they begin no stage (so no reset, no request, no build
\* script and no subprocess), and no step of theirs changes the workspace,
\* the archive directory, the installed package, the progress value or the
\* status message.
C22_EmptyVersionStartsNothing ==
    /\ [](version = "" =>
            \A f \in Runs : f.pc = "rejected" /\ f.trace = <<>> /\ f.proc = "none")
    /\ [][version = "" /\ PipelineStep => UNCHANGED <<Disk, Gui>>]_vars

\* C22 witness: a handler started from the main loop with the empty version
\* selected has been refused and is about to return
C22_Witness ==
    /\ version = ""
    /\ Len(stack) = 1
    /\ Top.entry \in Pipelines
    /\ Top.pc = "rejected"
    /\ prereq # "pending"

\* the handler at depth i of the call stack is a run that has begun its
\* first stage; it has set its outcome
Begun(i) ==
    /\ Len(stack) >= i
    /\ stack[i].entry \in Pipelines
    /\ stack[i].trace # <<>>
Decided(i) ==
    /\ Begun(i)
    /\ stack[i].pc \in {"completing", "complete", "failing", "failed"}
Ended(i) ==
    /\ Begun(i)
    /\ stack[i].pc \in {"complete", "failed"}

\* the step in which the user's confirmation starts the run
RunStarts ==
    /\ Len(stack) > 0
    /\ Len(stack') = Len(stack)
    /\ Top.entry \in Pipelines
    /\ Top.pc = "confirm"
    /\ Top'.pc \notin {"confirm", "cancelled"}

\* C23: Complete and Failed are terminal.  Every run the user has confirmed
\* ends as complete or as failed (the child exits, every call returns);
\* once it is on its completion or its failure path it begins no further
\* stage, starts no process and does not change to the other outcome; and
\* every run begins with no stage behind it and sets the progress value to 0
\* when it starts.
C23_OutcomesAreTerminal ==
    /\ \A i \in 1..MaxDepth : Begun(i) ~> Ended(i)
    /\ [][\A i \in 1..MaxDepth :
             Decided(i) /\ Len(stack') >= i
                => /\ stack'[i].trace = stack[i].trace
                   /\ stack'[i].proc = stack[i].proc
                   /\ stack'[i].entry = stack[i].entry
                   /\ stack[i].pc \in {"completing", "complete"}
                         => stack'[i].pc \in {"completing", "complete"}
                   /\ stack[i].pc \in {"failing", "failed"}
                         => stack'[i].pc \in {"failing", "failed"}
                   /\ stack[i].pc \in {"complete", "failed"}
                         => stack'[i].pc = stack[i].pc]_vars
    /\ [][Len(stack') = Len(stack) + 1
             => /\ stack'[Len(stack')].trace = <<>>
                /\ stack'[Len(stack')].proc = "none"]_vars
    /\ [][RunStarts => Top.trace = <<>> /\ progress' = 0]_vars

\* C23 witness: the second run of a session, started after the first one
\* ended, has itself ended as failed while the progress value is the 50 it
\* reached from 0
C23_Witness ==
    /\ Len(stack) = 1
    /\ clicks = 2
    /\ Ended(1)
    /\ Top.pc = "failed"
    /\ Top.proc = "exit1"
    /\ progress = 50

\* archive_wheel of run f returned False; os.remove of its build script raised
ArchiveFailed(f) ==
    /\ Len(f.trace) >= 5
    /\ f.trace[5].stage = "archive"
    /\ f.trace[5].res = "fail"
ScriptKept(f) ==
    /\ Len(f.trace) >= 4
    /\ f.trace[4].stage = "build"
    /\ f.trace[4].n = 1

\* C24: a failure of archive_wheel (no archive directory, a failed copy, no
\* wheel) and a failure to delete run_build.bat do not fail the run.  The
\* build stage of such a run has succeeded, the run goes on to the step that
\* follows (the completion in build_only, the install in
\* start_installation), and it is on its failure path only when that later
\* install has failed.
C24_ArchiveAndCleanupFailuresTolerated ==
    \A f \in Runs :
        ArchiveFailed(f) \/ ScriptKept(f)
           => /\ f.trace[4].res = "ok"
              /\ f.pc \in {"post_archive", "install", "completing", "complete",
                            "failing", "failed"}
              /\ f.pc \in {"failing", "failed"}
                    => /\ f.entry = "start_installation"
                       /\ Len(f.trace) = 6
                       /\ f.trace[6].stage = "install"
                       /\ f.trace[6].res = "fail"

\* C24 witness: a start_installation run whose build script could not be
\* deleted and whose wheel could not be copied to the archive is complete
C24_Witness ==
    /\ Len(stack) = 1
    /\ Top.entry = "start_installation"
    /\ Top.pc = "complete"
    /\ ScriptKept(Top)
    /\ ArchiveFailed(Top)
    /\ Top.trace[5].n = 1
    /\ Top.trace[6].res = "ok"

\* C25: on a machine where find_vs_installation finds no toolchain, a run
\* that gets to its build stage fails there: run_build_process returns False
\* without writing run_build.bat and without starting a process, the run
\* goes to its except clause and ends with the failure status, and the
\* handler returns as any other (nothing is raised out of it).
C25_NoToolchainFailsTheBuild ==
    ~machine.vs =>
        /\ "script" \notin wsFiles
        /\ \A f \in Runs :
              /\ f.proc = "none"
              /\ f.pc \notin {"write_script", "popen", "readline", "loop", "post_archive",
                               "install", "completing", "complete"}
              /\ Len(f.trace) >= 4
                    => /\ Len(f.trace) = 4
                       /\ f.trace[4] = [stage |-> "build", res |-> "fail", n |-> 0]
                       /\ f.pc \in {"failing", "failed"}
                       /\ f.pc = "failed" /\ f = Top => status = FailStatus(f)

\* C25 witness: without a toolchain a run has downloaded and unpacked the
\* source, failed at its build stage and ended with the failure status
C25_Witness ==
    /\ ~machine.vs
    /\ Len(stack) = 1
    /\ Top.entry = "build_only"
    /\ Top.pc = "failed"
    /\ Len(Top.trace) = 4
    /\ Top.trace[3].res = "ok"
    /\ Top.trace[4].res = "fail"
    /\ status = "Build failed!"
    /\ "tree" \in wsFiles

\* C26: a package that check_prerequisites installed counts as satisfied
\* only if it is present afterwards, not because pip returned success.
C26_InstalledMeansPresent ==
    \A p \in Installable :
        chk.pk[p] = "installed" => machine.pk[p] = "present"

\* C27: a run whose unpacked archive did not have exactly one top-level
\* entry fails at its extraction: it begins no build stage (so it writes no
\* build script and starts no process).
C27_UnexpectedLayoutFailsBeforeBuild ==
    \A f \in Runs :
        /\ Len(f.trace) >= 3
        /\ f.trace[3].stage = "extract"
        /\ f.trace[3].res # "run"
        /\ f.trace[3].n # 1
        => /\ f.trace[3].res = "fail"
           /\ Len(f.trace) = 3
           /\ f.proc = "none"

\* the button handlers on the call stack; the runs among them whose reset
\* succeeded; the one of these that reset the workspace last (a handler runs
\* inside the log() call of the one below it, so it is the topmost)
Handlers == {i \in 1..Len(stack) : stack[i].entry # "check_prerequisites"}
PastReset(i) ==
    /\ stack[i].entry \in Pipelines
    /\ stack[i].trace # <<>>
    /\ stack[i].trace[1].res = "ok"
LatestPastReset(j) ==
    /\ PastReset(j)
    /\ \A k \in (j + 1)..Len(stack) : ~PastReset(k)

\* C28: every wheel in dist was produced by the build of the most recent run
\* that got past its reset.  Stated where the whole history is on the call
\* stack (every handler started so far is still on it): as long as the build
\* of the run that reset the workspace last has not ended, dist holds no
\* wheel, so neither archive_wheel nor install_wheel can find one.
C28_NoStaleArtifact ==
    clicks = Cardinality(Handlers) =>
        \A j \in 1..Len(stack) :
            LatestPastReset(j) /\ stack[j].proc \in {"none", "alive"}
               => wheel_files = {}

\* the progress value run f has set last (lines 433, 460, 473, 483; 551,
\* 578, 591, 601, 613)
ProgressAt(f) ==
    IF f.pc \in {"completing", "complete"} THEN 100
    ELSE IF f.entry = "start_installation" /\ (f.pc = "install" \/ Len(f.trace) = 6)
         THEN 90
    ELSE IF Len(f.trace) >= 3 /\ f.trace[3].res = "ok" THEN 50
    ELSE IF Len(f.trace) >= 2 /\ f.trace[2].res = "ok" THEN 30
    ELSE 0

\* the status a completed run sets
DoneStatus(f) == IF f.entry = "build_only" THEN "Build complete!"
                                           ELSE "Installation complete!"

\* C29: from the start of a run to its return the progress value is the one
\* the run set last (0, then 30 after the download, 50 after the extraction,
\* 90 after the archive in start_installation, 100 at completion) and so
\* never decreases; it is 100 only with the run's completion status; and
\* when the run has failed the value is that of its last completed stage and
\* the status is its failure message.
C29_ProgressFollowsTheStages ==
    /\ [](\A i \in 1..Len(stack) :
             Begun(i) =>
                /\ progress = ProgressAt(stack[i])
                /\ progress = 100 => status = DoneStatus(stack[i])
                /\ stack[i].pc = "failed" => status = FailStatus(stack[i]))
    /\ [][\A i \in 1..Len(stack) :
             Begun(i) /\ Len(stack') >= i => progress' >= progress]_vars

====
